---- MODULE Spec2Model ----
(***************************************************************************)
(* Game Mashup Creator (src/main.py): a Flask service that validates a     *)
(* mashup request, sends the two game descriptions to the OpenAI chat      *)
(* completion API and shapes the generated text into a JSON response.      *)
(*                                                                         *)
(* State: the process environment (the three credential variables), the    *)
(* module-global `client`, and one call frame per worker that is serving   *)
(* a request.  A handler runs in one step up to its single blocking point  *)
(* (client.chat.completions.create) and in one further step from the       *)
(* completion's return or exception to the HTTP response.                  *)
(***************************************************************************)
EXTENDS Integers, Sequences, FiniteSets, TLC

VARIABLES environ, client, calls

vars == <<environ, client, calls>>

----------------------------------------------------------------------------
(* Bounds of the model *)

\* descriptions are tried with up to ExcerptLimit + MaxOver characters
MaxOver == 2
\* number of concurrent workers in SpecConc
NumWorkers == 2

(* Program constants *)

\* game1_data[:100], len(game1_data) > 100
ExcerptLimit == 100
\* len(sample_data['game1_data']), len(sample_data['game2_data'])
SampleLen1 == 342
SampleLen2 == 350
\* temperature=0.85 in hundredths, max_tokens=2500
Temperature == 85
MaxTokens == 2500

----------------------------------------------------------------------------
(* Python values.  Every value is [t |-> type, v |-> sequence of tokens]:   *)
(* a str is the sequence of its characters, an int the one-token sequence   *)
(* of its numeral, a list the sequence of its elements.                     *)

PyNone == [t |-> "None", v |-> <<>>]
PyStr(s) == [t |-> "str", v |-> s]
PyInt(numeral) == [t |-> "int", v |-> <<numeral>>]
PyList(s) == [t |-> "list", v |-> s]

\* Python truth value: None, "", 0 and [] are falsy
Truthy(x) ==
    CASE x.t = "None" -> FALSE
      [] x.t = "int" -> x.v # <<"0">>
      [] OTHER -> Len(x.v) > 0

\* Python `a or b`
PyOr(a, b) == IF Truthy(a) THEN a ELSE b

Alphabet == <<"a", "b", ".">>

\* a text of n characters, no two neighbours equal
Chars(n) == [i \in 1..n |-> Alphabet[(i % 3) + 1]]

----------------------------------------------------------------------------
(* Startup: credential lookup and client construction *)

EnvNames == {"OPENAI_KEY", "OPENAI_API_KEY", "OPENAI_TOKEN"}

\* os.environ.get(name): None when unset, else the string (possibly empty)
EnvValues == {PyNone, PyStr(<<>>), PyStr(<<"k">>)}

Environs == [EnvNames -> EnvValues]

\* the startup lookup: first truthy of the three names
ApiKey(env) ==
    PyOr(env["OPENAI_KEY"], PyOr(env["OPENAI_API_KEY"], env["OPENAI_TOKEN"]))

ClientNone == "None"
ClientReady == "OpenAI"

\* mutant: the `if not api_key: raise` check is dropped
InitClientNoCheck(env) == {ClientReady, ClientNone}

\* the values `client` can hold after the try/except at import time:
\* None when no key was found; with a key, the OpenAI object, or None when
\* the constructor raised
InitClient(env) ==
    IF ~Truthy(ApiKey(env)) THEN {ClientNone} ELSE {ClientReady, ClientNone}

\* bool(client)
ClientBool(cl) == cl # ClientNone

----------------------------------------------------------------------------
(* Request payloads *)

required_fields == <<"mashup_name", "game1_data", "game2_data">>

FieldNames == {required_fields[i] : i \in 1..Len(required_fields)}

\* lengths of the descriptions tried: empty, short, and around the limit
DescLens == {0, 1, ExcerptLimit - 1} \cup (ExcerptLimit..(ExcerptLimit + MaxOver))

NameValues == {PyNone, PyStr(<<>>), PyStr(<<"n">>), PyInt("5")}

GameValues ==
    {PyStr(Chars(n)) : n \in DescLens}
        \cup {PyNone, PyInt("0"), PyInt("5"), PyList(<<>>), PyList(<<"x">>),
              PyList(Chars(ExcerptLimit + 1))}

ValuesFor(f) == IF f = "mashup_name" THEN NameValues ELSE GameValues

\* JSON objects with any subset of the three keys
Dicts(keys) ==
    {d \in UNION {[D -> NameValues \cup GameValues] : D \in SUBSET keys} :
        \A f \in DOMAIN d : d[f] \in ValuesFor(f)}

Payloads == Dicts(FieldNames)

EmptyDict == [f \in {} |-> PyNone]

\* what request.json can be: the body is not JSON (request.json raises),
\* the JSON null, a JSON number, a JSON array, or a JSON object
JsonKinds == {"invalid", "null", "number", "array", "object"}

\* sample_data of test_endpoint
sample_data ==
    [mashup_name |-> PyStr(<<"TestMash Concept">>),
     game1_data |-> PyStr(Chars(SampleLen1)),
     game2_data |-> PyStr(Chars(SampleLen2))]

----------------------------------------------------------------------------
(* Exceptions and results of straight-line code *)

Exc(cls, msg) == [cls |-> cls, msg |-> msg]

NoExc == Exc("", <<>>)

\* classes caught by `except ValueError`
ValueErrorClasses == {"ValueError", "UnicodeEncodeError"}

IsValueError(cls) == cls \in ValueErrorClasses

\* exceptions the completion call can end with: a transport failure, a
\* response with no choices (response.choices[0]), text that cannot be encoded
UpstreamClasses == {"APIConnectionError", "IndexError", "UnicodeEncodeError"}

UpstreamExc(cls) == Exc(cls, <<"upstream: ", cls>>)

Returned(x) == [kind |-> "return", val |-> x, exc |-> NoExc]

Raised(e) == [kind |-> "raise", val |-> PyNone, exc |-> e]

----------------------------------------------------------------------------
(* process_game_mashup: validation *)

\* `field not in data`: a number has no `in`
ContainsRaises(json) == json = "number"

\* `field not in data or not data[field]` for a JSON object or array ([])
FieldMissing(json, data, field) ==
    \/ json = "array"
    \/ field \notin DOMAIN data
    \/ ~Truthy(data[field])

RECURSIVE FirstMissing(_, _, _)
\* the loop over required_fields: the first field found missing, or ""
FirstMissing(json, data, fields) ==
    IF fields = <<>> THEN ""
    ELSE IF FieldMissing(json, data, Head(fields)) THEN Head(fields)
    ELSE FirstMissing(json, data, Tail(fields))

MissingMsg(field) == <<"Missing required field: ", field>>

\* the validation loop of process_game_mashup
Validate(json, data) ==
    IF ContainsRaises(json)
    THEN Raised(Exc("TypeError", <<"argument of type 'int' is not iterable">>))
    ELSE LET f == FirstMissing(json, data, required_fields)
         IN  IF f # "" THEN Raised(Exc("ValueError", MissingMsg(f)))
             ELSE Returned(PyNone)

----------------------------------------------------------------------------
(* create_game_mashup: prompt and completion request *)

NotInitializedMsg ==
    <<"OpenAI client is not initialized. Please check your API key and environment variables.">>

\* how an f-string renders a value
Format(x) ==
    CASE x.t = "str" -> x.v
      [] x.t = "list" -> <<"[">> \o x.v \o <<"]">>
      [] x.t = "None" -> <<"None">>
      [] OTHER -> x.v

\* the f-string template with both descriptions embedded
BuildPrompt(game1_data, game2_data) ==
    <<"You are an expert game designer ... **Game 1:**">> \o Format(game1_data)
        \o <<"**Game 2:**">> \o Format(game2_data)
        \o <<"Create a detailed game concept ... formatting.">>

SystemMessage == <<"You are a world-class game designer ...">>

\* the keyword arguments of client.chat.completions.create
CompletionRequest(game1_data, game2_data) ==
    [model |-> "gpt-4",
     system |-> SystemMessage,
     user |-> BuildPrompt(game1_data, game2_data),
     temperature |-> Temperature,
     max_tokens |-> MaxTokens]

\* texts the completion API can generate
Texts == {<<"MOCK">>, <<"ANOTHER CONCEPT">>}

NoCompletion == [kind |-> "none", text |-> <<>>, exc |-> NoExc]

Generated(text) == [kind |-> "text", text |-> text, exc |-> NoExc]

Failed(cls) == [kind |-> "raise", text |-> <<>>, exc |-> UpstreamExc(cls)]

----------------------------------------------------------------------------
(* process_game_mashup: shaping the result *)

\* sample values of str(uuid.uuid4())[:8]
ReportIds == {"3f2a9c1b", "0d4e8a77"}

\* sample readings of datetime.now()
Times == {"2025-01-31 09:05", "2025-01-31 21:40"}

Ellipsis == <<".", ".", ".">>

\* mutant: the comparison is >= instead of >
ExcerptAtLimit(x) ==
    IF x.t = "int"
    THEN Raised(Exc("TypeError", <<"object of type 'int' has no len()">>))
    ELSE IF Len(x.v) >= ExcerptLimit
    THEN IF x.t = "str"
         THEN Returned(PyStr(SubSeq(x.v, 1, ExcerptLimit) \o Ellipsis))
         ELSE Raised(Exc("TypeError", <<"can only concatenate list (not \"str\") to list">>))
    ELSE Returned(x)

\* x[:100] + "..." if len(x) > 100 else x, for a truthy x
Excerpt(x) ==
    IF x.t = "int"
    THEN Raised(Exc("TypeError", <<"object of type 'int' has no len()">>))
    ELSE IF Len(x.v) > ExcerptLimit
    THEN IF x.t = "str"
         THEN Returned(PyStr(SubSeq(x.v, 1, ExcerptLimit) \o Ellipsis))
         ELSE Raised(Exc("TypeError", <<"can only concatenate list (not \"str\") to list">>))
    ELSE Returned(x)

\* strftime("%B %d, %Y at %I:%M %p") of the clock reading t
FormatTime(t) == [format |-> "%B %d, %Y at %I:%M %p", of |-> t]

\* the statements after create_game_mashup returned `concept`: the report
\* id, then the result dict, whose excerpts are evaluated game1 first
ShapeResult(data, concept, id, t) ==
    LET e1 == Excerpt(data["game1_data"])
        e2 == Excerpt(data["game2_data"])
    IN  IF e1.kind = "raise" THEN e1
        ELSE IF e2.kind = "raise" THEN e2
        ELSE Returned([success |-> TRUE,
                       message |-> <<"Game mashup created successfully!">>,
                       report_id |-> id,
                       mashup_name |-> data["mashup_name"],
                       concept |-> concept,
                       source_games |-> [game1 |-> e1.val, game2 |-> e2.val],
                       generated_at |-> FormatTime(t)])

----------------------------------------------------------------------------
(* The route handlers' try/except: result or exception to HTTP response *)

Response(status, body) == [status |-> status, body |-> body]

NoResp == Response(0, EmptyDict)

ErrorBody(msg) == [error |-> msg]

\* return jsonify(response_data) / except ValueError / except Exception
HandlerResponse(out) ==
    IF out.kind = "return" THEN Response(200, out.val)
    ELSE IF IsValueError(out.exc.cls) THEN Response(400, ErrorBody(out.exc.msg))
    ELSE Response(500, ErrorBody(out.exc.msg))

----------------------------------------------------------------------------
(* Call frames: one per worker *)

Routes == {"/", "/api/create-mashup", "/api/health", "/api/test", "/use"}

OrchestrationRoutes == {"/api/create-mashup", "/api/test"}

\* a worker that is serving no request
IdleFrame ==
    [pc |-> "idle", route |-> "", json |-> "", data |-> EmptyDict,
     sent |-> <<>>, completion |-> NoCompletion, resp |-> NoResp]

\* the frame of a request that has just been routed to its handler
Enter(route, json, data) ==
    [IdleFrame EXCEPT !.pc = "running", !.route = route, !.json = json,
                      !.data = data]

\* the handler returns its response
Finish(fr, out) == [fr EXCEPT !.pc = "done", !.resp = HandlerResponse(out)]

\* mutant: the project name is formatted into the prompt as well
InvokeWithName(fr) ==
    [fr EXCEPT !.pc = "waiting",
               !.sent = Append(@,
                   [CompletionRequest(fr.data["game1_data"], fr.data["game2_data"])
                       EXCEPT !.user = Format(fr.data["mashup_name"]) \o @])]

\* client.chat.completions.create(...) is invoked; the handler blocks
Invoke(fr) ==
    [fr EXCEPT !.pc = "waiting",
               !.sent = Append(@, CompletionRequest(fr.data["game1_data"],
                                                    fr.data["game2_data"]))]

\* create_game_mashup up to the completion call, with the rest of
\* process_game_mashup when it returns without calling
CreateGameMashup(fr, cl, id, t) ==
    IF cl = ClientNone
    THEN Finish(fr, ShapeResult(fr.data, NotInitializedMsg, id, t))
    ELSE Invoke(fr)

\* process_game_mashup(data) up to the completion call or to its end
ProcessGameMashup(fr, cl, id, t) ==
    LET v == Validate(fr.json, fr.data)
    IN  IF v.kind = "raise" THEN Finish(fr, v)
        ELSE CreateGameMashup(fr, cl, id, t)

\* mutant: the validated payload is kept in a module global, which a
\* concurrent request overwrites
LocalsShared(cs, c) ==
    LET others == {d \in DOMAIN cs : d # c /\ cs[d].pc = "waiting"}
    IN  IF others = {} THEN cs[c].data ELSE cs[CHOOSE d \in others : TRUE].data

\* the arguments the resumed call works on: its own frame's locals
Locals(cs, c) == cs[c].data

\* mutant: a failed completion call is tried again
OnCompletionRetry(fr, data, completion, id, t) ==
    IF completion.kind = "raise"
    THEN Invoke([fr EXCEPT !.completion = completion])
    ELSE Finish([fr EXCEPT !.completion = completion],
                ShapeResult(data, completion.text, id, t))

\* the completion call returned text or raised: the rest of
\* create_game_mashup and process_game_mashup, then the handler's response
OnCompletion(fr, data, completion, id, t) ==
    IF completion.kind = "raise"
    THEN Finish([fr EXCEPT !.completion = completion], Raised(completion.exc))
    ELSE Finish([fr EXCEPT !.completion = completion],
                ShapeResult(data, completion.text, id, t))

\* home(): the lookup of the credential for the report
HomeKey(env) == PyOr(env["OPENAI_KEY"], env["OPENAI_API_KEY"])

HomeBody(env, cl) ==
    [message |-> <<"Game Mashup Creator API is running!">>,
     status |-> "healthy",
     environment_check |-> [openai_key_set |-> Truthy(HomeKey(env)),
                            client_ready |-> ClientBool(cl)]]

HealthBody(cl, t) ==
    [status |-> "healthy",
     timestamp |-> t,
     service |-> "Game Mashup Creator",
     environment |-> [openai_configured |-> ClientBool(cl)]]

UseBody == [html |-> "<!DOCTYPE html> ..."]

----------------------------------------------------------------------------
(* Actions *)

\* POST /api/create-mashup up to the completion call or to the response
ApiCreateMashup(c, pool) ==
    /\ calls[c].pc = "idle"
    /\ \E json \in JsonKinds, data \in pool, id \in ReportIds, t \in Times :
         /\ json # "object" => data = EmptyDict
         /\ LET fr == Enter("/api/create-mashup", json, data)
            IN  calls' = [calls EXCEPT ![c] =
                    CASE json = "invalid" ->
                           Finish(fr, Raised(Exc("BadRequest",
                                     <<"400 Bad Request: Failed to decode JSON object">>)))
                      [] json = "null" ->
                           [fr EXCEPT !.pc = "done",
                                      !.resp = Response(400,
                                          ErrorBody(<<"No JSON data provided">>))]
                      [] OTHER -> ProcessGameMashup(fr, client, id, t)]
    /\ UNCHANGED <<environ, client>>

\* POST /api/test up to the completion call or to the response
TestEndpoint(c) ==
    /\ calls[c].pc = "idle"
    /\ \E id \in ReportIds, t \in Times :
         calls' = [calls EXCEPT ![c] =
                      ProcessGameMashup(Enter("/api/test", "object", sample_data),
                                        client, id, t)]
    /\ UNCHANGED <<environ, client>>

\* the completion call returns generated text
CompletionReturns(c) ==
    /\ calls[c].pc = "waiting"
    /\ \E text \in Texts, id \in ReportIds, t \in Times :
         calls' = [calls EXCEPT ![c] =
                      OnCompletion(calls[c], Locals(calls, c), Generated(text), id, t)]
    /\ UNCHANGED <<environ, client>>

\* the completion call raises
CompletionRaises(c) ==
    /\ calls[c].pc = "waiting"
    /\ \E cls \in UpstreamClasses, id \in ReportIds, t \in Times :
         calls' = [calls EXCEPT ![c] =
                      OnCompletion(calls[c], Locals(calls, c), Failed(cls), id, t)]
    /\ UNCHANGED <<environ, client>>

\* GET /
Home(c) ==
    /\ calls[c].pc = "idle"
    /\ calls' = [calls EXCEPT ![c] =
                    Finish(Enter("/", "", EmptyDict),
                           Returned(HomeBody(environ, client)))]
    /\ UNCHANGED <<environ, client>>

\* GET /api/health
HealthCheck(c) ==
    /\ calls[c].pc = "idle"
    /\ \E t \in Times :
         calls' = [calls EXCEPT ![c] =
                      Finish(Enter("/api/health", "", EmptyDict),
                             Returned(HealthBody(client, t)))]
    /\ UNCHANGED <<environ, client>>

\* GET /use
UsePage(c) ==
    /\ calls[c].pc = "idle"
    /\ calls' = [calls EXCEPT ![c] =
                    Finish(Enter("/use", "", EmptyDict), Returned(UseBody))]
    /\ UNCHANGED <<environ, client>>

\* the response is sent and the worker is free for the next request
Deliver(c) ==
    /\ calls[c].pc = "done"
    /\ calls' = [calls EXCEPT ![c] = IdleFrame]
    /\ UNCHANGED <<environ, client>>

----------------------------------------------------------------------------
(* Specifications *)

\* one worker, serving one request at a time, with every payload
Workers == {1}

Init ==
    /\ environ \in Environs
    /\ client \in InitClient(environ)
    /\ calls = [c \in Workers |-> IdleFrame]

Next ==
    \/ \E c \in Workers : ApiCreateMashup(c, Payloads)
    \/ \E c \in Workers : TestEndpoint(c)
    \/ \E c \in Workers : CompletionReturns(c)
    \/ \E c \in Workers : CompletionRaises(c)
    \/ \E c \in Workers : Home(c)
    \/ \E c \in Workers : HealthCheck(c)
    \/ \E c \in Workers : UsePage(c)
    \/ \E c \in Workers : Deliver(c)

Spec == Init /\ [][Next]_vars

\* NumWorkers workers serving requests concurrently, with a pool of payloads
\* that has valid and invalid ones, short and long descriptions
ConcWorkers == 1..NumWorkers

ConcPayloads ==
    {d \in Dicts(FieldNames) :
        /\ "game2_data" \in DOMAIN d
        /\ d["game2_data"] = PyStr(Chars(1))
        /\ "mashup_name" \in DOMAIN d => d["mashup_name"] = PyStr(<<"n">>)
        /\ "game1_data" \in DOMAIN d
        /\ d["game1_data"] \in {PyStr(Chars(ExcerptLimit)),
                                PyStr(Chars(ExcerptLimit + 1)), PyInt("5")}}
        \cup {EmptyDict}

ConcEnvirons ==
    {env \in Environs :
        /\ env["OPENAI_API_KEY"] = PyNone
        /\ env["OPENAI_TOKEN"] = PyNone
        /\ env["OPENAI_KEY"] # PyStr(<<>>)}

InitConc ==
    /\ environ \in ConcEnvirons
    /\ client \in InitClient(environ)
    /\ calls = [c \in ConcWorkers |-> IdleFrame]

NextConc ==
    \/ \E c \in ConcWorkers : ApiCreateMashup(c, ConcPayloads)
    \/ \E c \in ConcWorkers : CompletionReturns(c)
    \/ \E c \in ConcWorkers : CompletionRaises(c)
    \/ \E c \in ConcWorkers : Deliver(c)

SpecConc == InitConc /\ [][NextConc]_vars

\* two workers, so that two calls can be compared: an earlier call stays in
\* its frame until it is delivered while the other worker serves a later or
\* an overlapping one; the payloads differ in the project name and in the
\* first description
PairWorkers == {"first", "second"}

PairPayloads ==
    {d \in Dicts(FieldNames) :
        /\ "game2_data" \in DOMAIN d
        /\ d["game2_data"] = PyStr(Chars(1))
        /\ "mashup_name" \in DOMAIN d =>
               d["mashup_name"] \in {PyStr(<<"n">>), PyInt("5")}
        /\ "game1_data" \in DOMAIN d
        /\ d["game1_data"] \in {PyStr(Chars(ExcerptLimit)),
                                PyStr(Chars(ExcerptLimit + 1))}}

InitPair ==
    /\ environ \in ConcEnvirons
    /\ client \in InitClient(environ)
    /\ calls = [c \in PairWorkers |-> IdleFrame]

NextPair ==
    \/ \E c \in PairWorkers : ApiCreateMashup(c, PairPayloads)
    \/ \E c \in PairWorkers : TestEndpoint(c)
    \/ \E c \in PairWorkers : CompletionReturns(c)
    \/ \E c \in PairWorkers : CompletionRaises(c)
    \/ \E c \in PairWorkers : Deliver(c)

SpecPair == InitPair /\ [][NextPair]_vars

----------------------------------------------------------------------------
(* Vocabulary of the properties *)

Frames == {calls[c] : c \in DOMAIN calls}

\* a finished orchestration call (process_game_mashup was or would be run)
DoneOrch(fr) == fr.pc = "done" /\ fr.route \in OrchestrationRoutes

\* the response has the success shape
IsSuccess(resp) ==
    /\ resp.status = 200
    /\ {"success", "report_id", "concept", "source_games", "generated_at"}
           \subseteq DOMAIN resp.body
    /\ resp.body.success = TRUE

\* the response is an error and nothing else
IsError(resp) == resp.status # 200 /\ DOMAIN resp.body = {"error"}

\* the field is absent or empty in the payload
AbsentOrEmpty(fr, f) ==
    \/ fr.json # "object"
    \/ f \notin DOMAIN fr.data
    \/ fr.data[f] \in {PyNone, PyStr(<<>>), PyList(<<>>), PyInt("0")}

\* all three required fields are present and non-empty
ValidationPassed(fr) == \A f \in FieldNames : ~AbsentOrEmpty(fr, f)

\* the payload reached process_game_mashup
Processed(fr) == fr.route \in OrchestrationRoutes /\ fr.json \notin {"invalid", "null"}

\* the number of client.chat.completions.create invocations of the request
NetCalls(fr) == Len(fr.sent)

\* no credential is set: every recognised variable is unset or empty
NoCredential(env) == \A n \in EnvNames : env[n] \in {PyNone, PyStr(<<>>)}

----------------------------------------------------------------------------
(* C1..C4: result, configuration and validation *)

\* C1: a finished orchestration call has a success result if and only if
\* validation of the three fields passed and the completion call returned
\* generated text; otherwise the caller gets only an error.
C1_SuccessIffValidAndGenerated ==
    \A fr \in Frames :
        DoneOrch(fr) =>
            /\ IsSuccess(fr.resp) <=>
                   (ValidationPassed(fr) /\ fr.completion.kind = "text")
            /\ ~IsSuccess(fr.resp) => IsError(fr.resp)

\* C2: with no client (client is None) every finished orchestration call is
\* answered with an error response, and the completion call is never invoked.
C2_UnreadyClientFailsFast ==
    client = ClientNone =>
        \A fr \in Frames :
            /\ NetCalls(fr) = 0
            /\ DoneOrch(fr) => IsError(fr.resp)

\* C3: a payload with an absent or empty required field is answered with the
\* validation error naming the first such field in the order mashup_name,
\* game1_data, game2_data, and the completion call is not invoked.
C3_FirstMissingFieldNamed ==
    \A fr \in Frames : \A i \in 1..Len(required_fields) :
        ( /\ Processed(fr)
          /\ fr.pc # "idle"
          /\ AbsentOrEmpty(fr, required_fields[i])
          /\ \A j \in 1..(i - 1) : ~AbsentOrEmpty(fr, required_fields[j]) )
        => /\ fr.pc = "done"
           /\ fr.resp = Response(400, ErrorBody(MissingMsg(required_fields[i])))
           /\ NetCalls(fr) = 0

\* C4: a payload whose required field holds a non-string value is rejected
\* with a validation error and reaches neither the completion call nor the
\* excerpt computation.
C4_NonStringRejected ==
    \A fr \in Frames :
        ( /\ Processed(fr)
          /\ fr.pc # "idle"
          /\ fr.json = "object"
          /\ \E f \in DOMAIN fr.data : fr.data[f].t # "str" )
        => /\ fr.pc = "done"
           /\ fr.resp.status = 400
           /\ \E f \in FieldNames : fr.resp.body = ErrorBody(MissingMsg(f))
           /\ NetCalls(fr) = 0

----------------------------------------------------------------------------
(* C5..C7: excerpts, upstream failures, no retry *)

\* the excerpt e is what the claim prescribes for the description d
ExcerptAsClaimed(d, e) ==
    IF Len(d.v) <= ExcerptLimit
    THEN e = d
    ELSE /\ e.t = "str"
         /\ Len(e.v) = ExcerptLimit + 3
         /\ \A i \in 1..ExcerptLimit : e.v[i] = d.v[i]
         /\ \A i \in (ExcerptLimit + 1)..(ExcerptLimit + 3) : e.v[i] = "."

\* C5: in every success result each excerpt equals its description when the
\* description has at most 100 characters, and is its first 100 characters
\* followed by "..." when it has more.
C5_ExcerptTruncation ==
    \A fr \in Frames :
        (DoneOrch(fr) /\ IsSuccess(fr.resp)) =>
            /\ ExcerptAsClaimed(fr.data["game1_data"], fr.resp.body.source_games.game1)
            /\ ExcerptAsClaimed(fr.data["game2_data"], fr.resp.body.source_games.game2)

\* a success result with one description of exactly 100 characters and the
\* other of 101
C5_Witness ==
    \E fr \in Frames :
        /\ DoneOrch(fr) /\ IsSuccess(fr.resp)
        /\ fr.completion.kind = "text"
        /\ fr.data["game1_data"] = PyStr(Chars(ExcerptLimit))
        /\ fr.data["game2_data"] = PyStr(Chars(ExcerptLimit + 1))
        /\ Len(fr.resp.body.source_games.game1.v) = ExcerptLimit
        /\ Len(fr.resp.body.source_games.game2.v) = ExcerptLimit + 3

\* C6: when the completion call of a /api/create-mashup request fails, the
\* caller gets status 500 with the underlying error's message, never the
\* status 400 of validation failures.
C6_UpstreamFailureIs500 ==
    \A fr \in Frames :
        (fr.pc = "done" /\ fr.route = "/api/create-mashup"
            /\ fr.completion.kind = "raise")
        => fr.resp = Response(500, ErrorBody(fr.completion.exc.msg))

\* C7: a request invokes the completion call at most once; once the call has
\* failed the request has ended with an error, once it has returned the
\* request has ended, and in both cases it was invoked exactly once.
C7_AtMostOneCompletionCall ==
    \A fr \in Frames :
        /\ NetCalls(fr) <= 1
        /\ fr.pc = "waiting" => NetCalls(fr) = 1 /\ fr.completion.kind = "none"
        /\ fr.completion.kind = "raise" =>
               fr.pc = "done" /\ IsError(fr.resp) /\ NetCalls(fr) = 1
        /\ fr.completion.kind = "text" => fr.pc = "done" /\ NetCalls(fr) = 1

\* a request that ended after its one completion call failed
C7_Witness ==
    \E fr \in Frames :
        /\ fr.pc = "done"
        /\ fr.completion.kind = "raise"
        /\ NetCalls(fr) = 1
        /\ IsError(fr.resp)

----------------------------------------------------------------------------
(* C8: isolation of concurrent calls *)

\* the response of an orchestration call as a function of its own payload,
\* the client readiness and its own completion outcome (and the id and time
\* drawn for it)
OwnResponse(fr, cl, id, t) ==
    CASE fr.json = "invalid" ->
           Response(500, ErrorBody(<<"400 Bad Request: Failed to decode JSON object">>))
      [] fr.json = "null" -> Response(400, ErrorBody(<<"No JSON data provided">>))
      [] fr.json = "number" ->
           Response(500, ErrorBody(<<"argument of type 'int' is not iterable">>))
      [] OTHER ->
           IF \E f \in FieldNames : AbsentOrEmpty(fr, f)
           THEN Response(400, ErrorBody(MissingMsg(
                    required_fields[CHOOSE i \in 1..Len(required_fields) :
                        /\ AbsentOrEmpty(fr, required_fields[i])
                        /\ \A j \in 1..(i - 1) : ~AbsentOrEmpty(fr, required_fields[j])])))
           ELSE IF cl # ClientNone /\ fr.completion.kind = "raise"
           THEN HandlerResponse(Raised(fr.completion.exc))
           ELSE HandlerResponse(ShapeResult(fr.data,
                    IF cl = ClientNone THEN NotInitializedMsg ELSE fr.completion.text,
                    id, t))

\* C8: no step of a call writes process-wide state or another call's frame,
\* and the response of every finished call is determined by its own payload,
\* the client readiness fixed at startup and its own completion outcome.
C8_CallsIsolated ==
    [][ /\ environ' = environ
        /\ client' = client
        /\ \A c, d \in DOMAIN calls :
               (c # d /\ calls'[c] # calls[c]) => calls'[d] = calls[d]
        /\ \A c \in DOMAIN calls :
               DoneOrch(calls'[c]) =>
                   \E id \in ReportIds, t \in Times :
                       calls'[c].resp = OwnResponse(calls'[c], client, id, t)
      ]_vars

\* two calls in flight with different payloads, one of them finished with a
\* success result while the other still waits for its completion
C8_Witness ==
    \E c, d \in DOMAIN calls :
        /\ c # d
        /\ DoneOrch(calls[c]) /\ IsSuccess(calls[c].resp)
        /\ calls[c].completion.kind = "text"
        /\ calls[d].pc = "waiting"
        /\ calls[d].data["game1_data"] # calls[c].data["game1_data"]

----------------------------------------------------------------------------
(* C9, C10: status query and client readiness *)

\* C9: the flags of '/' and /api/health agree with the configuration:
\* openai_key_set is true exactly when one of the three credential variables
\* is non-empty, client_ready and openai_configured exactly when the client
\* was initialised; and answering changes no process-wide state.
C9_StatusFlagsAgree ==
    [][ \A c \in DOMAIN calls :
          /\ (calls[c].pc = "idle" /\ calls'[c].route = "/") =>
                 /\ calls'[c].resp.body.environment_check.openai_key_set
                        = ~NoCredential(environ)
                 /\ calls'[c].resp.body.environment_check.client_ready
                        = (client # ClientNone)
                 /\ UNCHANGED <<environ, client>>
          /\ (calls[c].pc = "idle" /\ calls'[c].route = "/api/health") =>
                 /\ calls'[c].resp.body.environment.openai_configured
                        = (client # ClientNone)
                 /\ UNCHANGED <<environ, client>>
      ]_vars

\* C10: with no credential at startup the client is None, and no request to
\* any route ever changes the client (or the credentials it was built from).
C10_ReadinessFixed ==
    /\ [](NoCredential(environ) => client = ClientNone)
    /\ [][client' = client /\ environ' = environ]_vars

\* a valid payload was served with no credential and no client
C10_Witness ==
    /\ NoCredential(environ)
    /\ client = ClientNone
    /\ \E fr \in Frames : DoneOrch(fr) /\ ValidationPassed(fr)

----------------------------------------------------------------------------
(* C11: determinism of the prompt *)

Descriptions == {"game1_data", "game2_data"}

\* a call that process_game_mashup was given a JSON object for
Orchestrated(fr) == fr.pc # "idle" /\ Processed(fr) /\ fr.json = "object"

\* the two calls carry identical game1_data and game2_data
SameDescriptions(a, b) ==
    \A f \in Descriptions :
        /\ f \in DOMAIN a.data <=> f \in DOMAIN b.data
        /\ f \in DOMAIN a.data => a.data[f] = b.data[f]

\* the call was rejected by the validation
Rejected(fr) ==
    /\ fr.pc = "done"
    /\ \E f \in FieldNames : fr.resp = Response(400, ErrorBody(MissingMsg(f)))

\* both calls rejected with the same error, or neither rejected
SameValidation(a, b) ==
    /\ Rejected(a) <=> Rejected(b)
    /\ Rejected(a) => a.resp = b.resp

\* success results of both calls carry the same excerpts
SameExcerpts(a, b) ==
    (a.pc = "done" /\ b.pc = "done" /\ IsSuccess(a.resp) /\ IsSuccess(b.resp))
        => a.resp.body.source_games = b.resp.body.source_games

\* the generation parameters and the system message are the fixed ones
FixedParameters(req) ==
    /\ req.model = "gpt-4"
    /\ req.system = SystemMessage
    /\ req.temperature = Temperature
    /\ req.max_tokens = MaxTokens

\* C11 as stated: two orchestration calls with identical game1_data and
\* game2_data send identical requests (prompts and parameters) to the
\* completion client and show identical validation and excerpt behaviour.
C11_SameDescriptionsSameBehaviour ==
    \A a, b \in Frames :
        (Orchestrated(a) /\ Orchestrated(b) /\ SameDescriptions(a, b)) =>
            /\ a.sent = b.sent
            /\ SameValidation(a, b)
            /\ SameExcerpts(a, b)

\* C11 amended: of two orchestration calls with identical game1_data and
\* game2_data, those that invoke the completion client send identical
\* requests with the fixed parameters, whatever their mashup_name, concept,
\* report_id and time, and their success results carry identical excerpts;
\* their validation behaviour is identical when mashup_name is identical too.
C11_PromptFromDescriptionsOnly ==
    \A a, b \in Frames :
        (Orchestrated(a) /\ Orchestrated(b) /\ SameDescriptions(a, b)) =>
            /\ (NetCalls(a) > 0 /\ NetCalls(b) > 0) => a.sent = b.sent
            /\ \A i \in 1..NetCalls(a) : FixedParameters(a.sent[i])
            /\ SameExcerpts(a, b)
            /\ a.data = b.data => SameValidation(a, b)

\* two finished calls with the same descriptions and different project names,
\* whose concepts and report ids differ although the requests were the same
C11_Witness ==
    \E a, b \in Frames :
        /\ DoneOrch(a) /\ DoneOrch(b) /\ SameDescriptions(a, b)
        /\ IsSuccess(a.resp) /\ IsSuccess(b.resp)
        /\ NetCalls(a) = 1 /\ NetCalls(b) = 1
        /\ a.data["mashup_name"] # b.data["mashup_name"]
        /\ a.resp.body.concept # b.resp.body.concept
        /\ a.resp.body.report_id # b.resp.body.report_id

----------------------------------------------------------------------------
(* C12: report ids *)

\* the call ended with a success result
Succeeded(fr) == DoneOrch(fr) /\ IsSuccess(fr.resp)

\* C12: no two success results of the process carry the same report_id, and
\* a report_id is generated only after the completion call of its request
\* has returned generated text.
C12_ReportIdsDistinctAfterCompletion ==
    /\ \A c, d \in DOMAIN calls :
           (c # d /\ Succeeded(calls[c]) /\ Succeeded(calls[d])) =>
               calls[c].resp.body.report_id # calls[d].resp.body.report_id
    /\ \A fr \in Frames :
           Succeeded(fr) => (fr.completion.kind = "text" /\ NetCalls(fr) = 1)

----------------------------------------------------------------------------
(* C13: validation precedes the client check *)

\* the response shows that create_game_mashup was entered: it carries a
\* concept, or the completion client was invoked
EnteredCreate(fr) == NetCalls(fr) > 0 \/ "concept" \in DOMAIN fr.resp.body

\* the unready-client branch of create_game_mashup was taken
UnreadyBranch(fr) ==
    /\ "concept" \in DOMAIN fr.resp.body
    /\ fr.resp.body.concept = NotInitializedMsg

\* C13: whatever the client is, a payload with an absent or empty required
\* field gets status 400 with 'Missing required field: <first such field>'
\* and never enters create_game_mashup; the unready-client branch is taken
\* only for payloads that pass validation.
C13_ValidationBeforeClientCheck ==
    \A fr \in Frames :
        (Processed(fr) /\ fr.pc # "idle") =>
            /\ ~ValidationPassed(fr) =>
                   /\ Rejected(fr)
                   /\ fr.resp.status = 400
                   /\ ~EnteredCreate(fr)
            /\ UnreadyBranch(fr) => (ValidationPassed(fr) /\ client = ClientNone)

====
